---- MODULE Spec2Model ----
(***************************************************************************)
(* A model of app.py, the Streamlit dashboard "Banking Fraud Guard".       *)
(*                                                                         *)
(* Streamlit re-runs the whole script on every interaction; only the       *)
(* button that was clicked returns True in that run.  One action of the    *)
(* model is therefore one script run with one button pressed.  The state   *)
(* that survives between runs is st.session_state.  The uploaded files     *)
(* and the answers of the third-party libraries (PIL / pdf2image, SSIM,    *)
(* easyocr, DeepFace, pandas.read_csv, reportlab) are inputs of a run.     *)
(*                                                                         *)
(* Representation                                                          *)
(*   - an optional value is a tuple: None is <<>>, a value v is <<v>>;     *)
(*   - a Python str is a sequence of one-character strings;                *)
(*   - a float score or distance is an integer number of thousandths;      *)
(*   - an f-string is a record [fmt, arg]: the template and the formatted  *)
(*     argument (a str, <<>> when the template has no argument);           *)
(*   - Streamlit's display calls (st.write, st.image, st.metric, ...) are  *)
(*     taken to return normally; the library calls that do the analysis    *)
(*     may raise.                                                          *)
(***************************************************************************)
EXTENDS Integers, Sequences, FiniteSets, TLC

VARIABLES
    session_state,  \* st.session_state: the seven keys of lines 106-116
    run,            \* what the last script run did: button, input, output
    completed       \* history: the tabs whose analysis has run to its end

vars == <<session_state, run, completed>>

----------------------------------------------------------------------------
(* Optional values and Python strings *)

None == <<>>

Some(v) == <<v>>

Min(a, b) == IF a < b THEN a ELSE b

Digits == <<"0", "1", "2", "3", "4", "5", "6", "7", "8", "9">>

Lowers == <<"a", "b", "c", "d", "e", "f", "g", "h", "i", "j", "k", "l", "m",
            "n", "o", "p", "q", "r", "s", "t", "u", "v", "w", "x", "y", "z">>

Uppers == <<"A", "B", "C", "D", "E", "F", "G", "H", "I", "J", "K", "L", "M",
            "N", "O", "P", "Q", "R", "S", "T", "U", "V", "W", "X", "Y", "Z">>

IsDigit(c) == \E i \in 1..Len(Digits) : Digits[i] = c

IsUpper(c) == \E i \in 1..Len(Uppers) : Uppers[i] = c

\* A character of a text is one of the code points 1 to 255, the ones a
\* string of this module can hold, written as a string of length one.  A
\* code point above 255, which only str.upper() produces from these, is
\* written by its name: "U+039C" is the one character U+039C.

\* the characters \s of line 191 matches: space, tab (9), line feed (10),
\* vertical tab (11), form feed (12), carriage return (13), the separators
\* 28 to 31, next line (133) and no-break space (160)
IsSpace(c) ==
    c \in {" ", "\t", "\n", "\r", "\f", "", "", "", "", "",
           "", " "}

\* the accented letters that have both cases among the code points 1 to 255:
\* 224 to 254 but 247, and 192 to 222 but 215
LatinLowers ==
    <<"à", "á", "â", "ã", "ä", "å", "æ", "ç", "è", "é",
      "ê", "ë", "ì", "í", "î", "ï", "ð", "ñ", "ò", "ó",
      "ô", "õ", "ö", "ø", "ù", "ú", "û", "ü", "ý", "þ">>

LatinUppers ==
    <<"À", "Á", "Â", "Ã", "Ä", "Å", "Æ", "Ç", "È", "É",
      "Ê", "Ë", "Ì", "Í", "Î", "Ï", "Ð", "Ñ", "Ò", "Ó",
      "Ô", "Õ", "Ö", "Ø", "Ù", "Ú", "Û", "Ü", "Ý", "Þ">>

CasedLowers == Lowers \o LatinLowers

CasedUppers == Uppers \o LatinUppers

\* str.lower() of one character
LowerChar(c) ==
    IF \E i \in 1..Len(CasedUppers) : CasedUppers[i] = c
    THEN CasedLowers[CHOOSE i \in 1..Len(CasedUppers) : CasedUppers[i] = c] ELSE c

\* str.upper() of one character, as a string: the sharp s (223) becomes "SS",
\* the micro sign (181) the Greek capital mu U+039C, and y with diaeresis
\* (255) the capital U+0178
UpperChar(c) ==
    IF c = "ß" THEN <<"S", "S">>
    ELSE IF c = "µ" THEN <<"U+039C">>
    ELSE IF c = "ÿ" THEN <<"U+0178">>
    ELSE IF \E i \in 1..Len(CasedLowers) : CasedLowers[i] = c
         THEN <<CasedUppers[CHOOSE i \in 1..Len(CasedLowers) : CasedLowers[i] = c]>>
    ELSE <<c>>

Lower(s) == [i \in 1..Len(s) |-> LowerChar(s[i])]

RECURSIVE Upper(_)
Upper(s) == IF Len(s) = 0 THEN <<>> ELSE UpperChar(s[1]) \o Upper(Tail(s))

\* str.endswith
EndsWith(s, suffix) ==
    /\ Len(s) >= Len(suffix)
    /\ SubSeq(s, Len(s) - Len(suffix) + 1, Len(s)) = suffix

\* " ".join(parts)
RECURSIVE Join(_)
Join(parts) ==
    IF Len(parts) = 0 THEN <<>>
    ELSE IF Len(parts) = 1 THEN parts[1]
    ELSE parts[1] \o <<" ">> \o Join(Tail(parts))

\* str(n) of a non-negative int
RECURSIVE NatStr(_)
NatStr(n) ==
    IF n < 10 THEN <<Digits[n + 1]>> ELSE NatStr(n \div 10) \o <<Digits[(n % 10) + 1]>>

\* str(n) of an int: what f"{val}" gives for the fraud count
IntStr(n) == IF n < 0 THEN <<"-">> \o NatStr(0 - n) ELSE NatStr(n)

Abs(n) == IF n < 0 THEN 0 - n ELSE n

\* the three decimals of a number of thousandths
Frac3(p) ==
    <<Digits[((Abs(p) % 1000) \div 100) + 1],
      Digits[((Abs(p) % 100) \div 10) + 1],
      Digits[(Abs(p) % 10) + 1]>>

Sign(p) == IF p < 0 THEN <<"-">> ELSE <<>>

\* f"{x:.3f}" of a float that is p thousandths
Fixed3(p) == Sign(p) \o NatStr(Abs(p) \div 1000) \o <<".">> \o Frac3(p)

\* f"{x:.4f}" of a float that is p thousandths
Fixed4(p) == Fixed3(p) \o <<"0">>

\* the decimals of repr(float): trailing zeros dropped, one digit kept
RECURSIVE StripZeros(_)
StripZeros(ds) ==
    IF Len(ds) > 1 /\ ds[Len(ds)] = "0" THEN StripZeros(SubSeq(ds, 1, Len(ds) - 1))
    ELSE ds

\* f"{x}" of a float that is p thousandths: repr(float)
FloatStr(p) == Sign(p) \o NatStr(Abs(p) \div 1000) \o <<".">> \o StripZeros(Frac3(p))

\* an f-string: the template and its formatted argument
Text(fmt, arg) == [fmt |-> fmt, arg |-> arg]

\* one Streamlit element: st.error, st.warning, st.success, st.write, ...
Msg(kind, fmt, arg) == [kind |-> kind, text |-> Text(fmt, arg)]

----------------------------------------------------------------------------
(* The session record *)

Keys == {"forgery_score", "signature_score", "aadhaar_text", "pan_text",
         "face_distance", "face_verified", "transaction_frauds_count"}

\* InitSession with the fraud count started at 0 instead of None
InitSession_ZeroCount ==
    [key \in Keys |-> IF key = "transaction_frauds_count" THEN Some(0) ELSE None]

\* lines 106-116: every key missing from the session is set to None
InitSession == [key \in Keys |-> None]

\* the sections of the script, in the order the script runs them
Sections == <<"forgery", "signature", "aadhaar", "pan", "kyc", "transactions", "report">>

SectionIndex(op) == CHOOSE i \in 1..Len(Sections) : Sections[i] = op

\* the session keys each section writes
Owned(op) ==
    CASE op = "forgery" -> {"forgery_score"}
      [] op = "signature" -> {"signature_score"}
      [] op = "aadhaar" -> {"aadhaar_text"}
      [] op = "pan" -> {"pan_text"}
      [] op = "kyc" -> {"face_distance", "face_verified"}
      [] op = "transactions" -> {"transaction_frauds_count"}
      [] OTHER -> {}

\* what a handler returns to the script run
Result(ss, outcome, msgs, calls, report) ==
    [ss |-> ss, outcome |-> outcome, msgs |-> msgs, calls |-> calls, report |-> report]

----------------------------------------------------------------------------
(* load_image, lines 48-56 *)

PdfSuffix == <<".", "p", "d", "f">>

\* an uploaded file: its name and the images the decoder finds in it
\* (no image: PIL or pdf2image raises, or the PDF has no page)
File(name, pages) == [name |-> name, pages |-> pages]

\* the library call load_image makes for this file
LoadCall(uploaded_file) ==
    IF EndsWith(Lower(uploaded_file[1].name), PdfSuffix) THEN "convert_from_bytes"
    ELSE "Image.open"

\* load_image(uploaded_file): None for no file, else the first page or the image
load_image(uploaded_file) ==
    IF uploaded_file = None THEN [raised |-> FALSE, image |-> None, calls |-> <<>>]
    ELSE IF Len(uploaded_file[1].pages) = 0
         THEN [raised |-> TRUE, image |-> None, calls |-> <<LoadCall(uploaded_file)>>]
         ELSE [raised |-> FALSE, image |-> Some(uploaded_file[1].pages[1]),
               calls |-> <<LoadCall(uploaded_file)>>]

\* load_image(f).convert(...) or np.array(load_image(f)) fails: the decoder
\* raised, or load_image returned None (lines 49-50) and None has no convert
Failed(l) == l.raised \/ l.image = None

\* Streamlit's answer to an exception that leaves the script: the traceback
\* is shown and the run stops
Uncaught(ss, calls) ==
    Result(ss, "uncaught", <<Msg("exception", "Traceback", <<>>)>>, calls, None)

----------------------------------------------------------------------------
(* Doc Forgery, lines 132-149 *)

ForgeryHigh == 900

ForgeryLow == 600

ForgeryVerdict(score) ==
    IF score > ForgeryHigh THEN Msg("success", "No forgery detected.", <<>>)
    ELSE IF score > ForgeryLow THEN Msg("warning", "Minor differences detected.", <<>>)
    ELSE Msg("error", "High chance of forgery.", <<>>)

\* ForgeryMissing with "not (orig or sus)" written for "not (orig and sus)"
ForgeryMissing_BothOnly(in) == in.orig = None /\ in.sus = None

\* line 133: not (orig and sus)
ForgeryMissing(in) == in.orig = None \/ in.sus = None

\* in = [orig, sus, ssim]: the two uploads and what ssim(a1, a2) answers
ForgeryHandler(in, ss) ==
    IF ForgeryMissing(in)
    THEN Result(ss, "rejected", <<Msg("error", "Please upload both files.", <<>>)>>, <<>>, None)
    ELSE LET l1 == load_image(in.orig) IN
         IF Failed(l1) THEN Uncaught(ss, l1.calls)
         ELSE LET l2 == load_image(in.sus) IN
              IF Failed(l2) THEN Uncaught(ss, l1.calls \o l2.calls)
              ELSE IF in.ssim.raises THEN Uncaught(ss, l1.calls \o l2.calls \o <<"ssim">>)
              ELSE Result([ss EXCEPT !["forgery_score"] = Some(in.ssim.score)],
                          "ok",
                          <<Msg("write", "Similarity Score: {:.3f}", Fixed3(in.ssim.score)),
                            ForgeryVerdict(in.ssim.score),
                            Msg("image", "Original,Suspect,Diff Map", <<>>)>>,
                          l1.calls \o l2.calls \o <<"ssim">>,
                          None)

----------------------------------------------------------------------------
(* Signature, lines 160-175 *)

SignatureHigh == 850

SignatureLow == 600

SignatureVerdict(sscore) ==
    IF sscore > SignatureHigh THEN Msg("success", "Signatures appear genuine.", <<>>)
    ELSE IF sscore > SignatureLow THEN Msg("warning", "Partial match - suspicious.", <<>>)
    ELSE Msg("error", "Signatures likely forged.", <<>>)

\* in = [sig_orig, sig_sus, ssim]
SignatureHandler(in, ss) ==
    IF in.sig_orig = None \/ in.sig_sus = None
    THEN Result(ss, "rejected", <<Msg("error", "Upload both signatures.", <<>>)>>, <<>>, None)
    ELSE LET l1 == load_image(in.sig_orig) IN
         IF Failed(l1) THEN Uncaught(ss, l1.calls)
         ELSE LET l2 == load_image(in.sig_sus) IN
              IF Failed(l2) THEN Uncaught(ss, l1.calls \o l2.calls)
              ELSE IF in.ssim.raises THEN Uncaught(ss, l1.calls \o l2.calls \o <<"ssim">>)
              ELSE Result([ss EXCEPT !["signature_score"] = Some(in.ssim.score)],
                          "ok",
                          <<Msg("write", "Signature Similarity: {:.3f}", Fixed3(in.ssim.score)),
                            SignatureVerdict(in.ssim.score),
                            Msg("image", "Original Sig,Suspect Sig", <<>>)>>,
                          l1.calls \o l2.calls \o <<"ssim">>,
                          None)

----------------------------------------------------------------------------
(* Aadhaar, lines 181-195 *)

\* \d{4} at position i
FourDigits(text, i) ==
    /\ i >= 1
    /\ i + 3 <= Len(text)
    /\ \A k \in i..(i + 3) : IsDigit(text[k])

\* \s* from position i: the first position that holds no white space
RECURSIVE SkipSpaces(_, _)
SkipSpaces(text, i) ==
    IF i <= Len(text) /\ IsSpace(text[i]) THEN SkipSpaces(text, i + 1) ELSE i

\* \d{4}\s*\d{4}\s*\d{4}|\d{12} matched at position i: the last position of
\* the match, 0 for no match (the second alternative matches nothing the
\* first does not)
AadhaarMatchEnd(text, i) ==
    IF ~FourDigits(text, i) THEN 0
    ELSE LET j == SkipSpaces(text, i + 4) IN
         IF ~FourDigits(text, j) THEN 0
         ELSE LET k == SkipSpaces(text, j + 4) IN
              IF ~FourDigits(text, k) THEN 0 ELSE k + 3

\* re.findall(...): None for an empty list, else found[0], the leftmost match
AadhaarFound(text) ==
    LET starts == {i \in 1..Len(text) : AadhaarMatchEnd(text, i) > 0} IN
    IF starts = {} THEN None
    ELSE LET i == CHOOSE a \in starts : \A b \in starts : a <= b IN
         Some(SubSeq(text, i, AadhaarMatchEnd(text, i)))

\* " ".join([r[1] for r in res]): a result is (box, text, confidence)
OcrText(res) == Join([i \in 1..Len(res) |-> res[i][2]])

\* in = [aad, ocr]: the upload and what easyocr answers
\* (ocr.raises: "no", "Reader" or "readtext"; ocr.res: the list readtext returns)
AadhaarHandler(in, ss) ==
    IF in.aad = None
    THEN Result(ss, "rejected", <<Msg("error", "Upload Aadhaar file.", <<>>)>>, <<>>, None)
    ELSE IF in.ocr.raises = "Reader" THEN Uncaught(ss, <<"easyocr.Reader">>)
    ELSE LET l == load_image(in.aad) IN
         IF Failed(l) THEN Uncaught(ss, <<"easyocr.Reader">> \o l.calls)
         ELSE IF in.ocr.raises = "readtext"
              THEN Uncaught(ss, <<"easyocr.Reader">> \o l.calls \o <<"readtext">>)
         ELSE LET text == OcrText(in.ocr.res)
                  found == AadhaarFound(text)
              IN Result([ss EXCEPT !["aadhaar_text"] = Some(text)],
                        "ok",
                        <<Msg("text_area", "Extracted Text", text),
                          IF found # None
                          THEN Msg("success", "Aadhaar-like number found: {}", found[1])
                          ELSE Msg("warning", "No 12-digit Aadhaar number detected.", <<>>)>>,
                        <<"easyocr.Reader">> \o l.calls \o <<"readtext">>,
                        None)

----------------------------------------------------------------------------
(* PAN, lines 201-215 *)

\* [A-Z]{5}[0-9]{4}[A-Z] matched at position i
PanMatchAt(text, i) ==
    /\ i >= 1
    /\ i + 9 <= Len(text)
    /\ \A k \in i..(i + 4) : IsUpper(text[k])
    /\ \A k \in (i + 5)..(i + 8) : IsDigit(text[k])
    /\ IsUpper(text[i + 9])

\* re.findall(..., textp.upper()): None for an empty list, else found[0]
PanFound(textp) ==
    LET up == Upper(textp)
        starts == {i \in 1..Len(up) : PanMatchAt(up, i)}
    IN IF starts = {} THEN None
       ELSE LET i == CHOOSE a \in starts : \A b \in starts : a <= b IN
            Some(SubSeq(up, i, i + 9))

\* in = [pan, ocr]
PanHandler(in, ss) ==
    IF in.pan = None
    THEN Result(ss, "rejected", <<Msg("error", "Upload PAN file.", <<>>)>>, <<>>, None)
    ELSE IF in.ocr.raises = "Reader" THEN Uncaught(ss, <<"easyocr.Reader">>)
    ELSE LET l == load_image(in.pan) IN
         IF Failed(l) THEN Uncaught(ss, <<"easyocr.Reader">> \o l.calls)
         ELSE IF in.ocr.raises = "readtext"
              THEN Uncaught(ss, <<"easyocr.Reader">> \o l.calls \o <<"readtext">>)
         ELSE LET textp == OcrText(in.ocr.res)
                  found == PanFound(textp)
              IN Result([ss EXCEPT !["pan_text"] = Some(textp)],
                        "ok",
                        <<Msg("text_area", "Extracted Text", textp),
                          IF found # None
                          THEN Msg("success", "PAN-like number found: {}", found[1])
                          ELSE Msg("warning", "PAN number not confidently detected.", <<>>)>>,
                        <<"easyocr.Reader">> \o l.calls \o <<"readtext">>,
                        None)

----------------------------------------------------------------------------
(* KYC, lines 225-239 *)

\* the Python values a DeepFace result may hold
PyFloat(p) == [t |-> "float", v |-> p]

PyBool(b) == [t |-> "bool", v |-> IF b THEN 1 ELSE 0]

PyNone == [t |-> "NoneType", v |-> 0]

PyStr == [t |-> "str", v |-> 0]     \* a non-empty str that is no number

\* dict.get(key, default): a key the dict lacks is None in the model
Get(entry, default) == IF entry = None THEN default ELSE entry[1]

\* float(x): None where Python raises TypeError or ValueError
ToFloat(x) ==
    CASE x.t = "float" -> Some(x.v)
      [] x.t = "bool" -> Some(x.v * 1000)
      [] OTHER -> None

\* bool(x): no Python value of these types raises
ToBool(x) ==
    CASE x.t = "float" -> x.v # 0
      [] x.t = "bool" -> x.v = 1
      [] x.t = "str" -> TRUE
      [] OTHER -> FALSE

\* KycError with the face fields cleared in the except branch
KycError_Resets(ss, calls) ==
    Result([ss EXCEPT !["face_distance"] = None, !["face_verified"] = None],
           "caught", <<Msg("error", "Face verification error: {}", <<>>)>>, calls, None)

KycError(ss, calls) ==
    Result(ss, "caught", <<Msg("error", "Face verification error: {}", <<>>)>>, calls, None)

\* KycStore with res["verified"] written for res.get("verified", False):
\* a result without the key raises KeyError after the distance is stored
KycStore_KeyError(res, ss, calls) ==
    LET distance == ToFloat(Get(res.distance, PyFloat(0))) IN
    IF distance = None THEN KycError(ss, calls)
    ELSE LET s1 == [ss EXCEPT !["face_distance"] = distance] IN
         IF res.verified = None THEN KycError(s1, calls)
         ELSE LET s2 == [s1 EXCEPT !["face_verified"] = Some(ToBool(res.verified[1]))] IN
              Result(s2, "ok",
                     <<Msg("write", "Distance: {:.4f}", Fixed4(s2["face_distance"][1])),
                       IF s2["face_verified"][1]
                       THEN Msg("success", "Face match verified.", <<>>)
                       ELSE Msg("error", "Face mismatch.", <<>>)>>,
                     calls, None)

\* KycStore with the forgery score read back for the distance line: a
\* session without a forgery score raises TypeError in the format
KycStore_ReadsForgery(res, ss, calls) ==
    LET distance == ToFloat(Get(res.distance, PyFloat(0))) IN
    IF distance = None THEN KycError(ss, calls)
    ELSE LET s1 == [ss EXCEPT !["face_distance"] = distance]
             s2 == [s1 EXCEPT !["face_verified"] = Some(ToBool(Get(res.verified, PyBool(FALSE))))]
         IN IF s2["forgery_score"] = None THEN KycError(s2, calls)
            ELSE Result(s2, "ok",
                        <<Msg("write", "Distance: {:.4f}", Fixed4(s2["forgery_score"][1])),
                          IF s2["face_verified"][1]
                          THEN Msg("success", "Face match verified.", <<>>)
                          ELSE Msg("error", "Face mismatch.", <<>>)>>,
                        calls, None)

\* lines 231-237: the result is stored, then read back from the session
KycStore(res, ss, calls) ==
    LET distance == ToFloat(Get(res.distance, PyFloat(0))) IN
    IF distance = None THEN KycError(ss, calls)
    ELSE LET s1 == [ss EXCEPT !["face_distance"] = distance]
             s2 == [s1 EXCEPT !["face_verified"] = Some(ToBool(Get(res.verified, PyBool(FALSE))))]
         IN Result(s2, "ok",
                   <<Msg("write", "Distance: {:.4f}", Fixed4(s2["face_distance"][1])),
                     IF s2["face_verified"][1]
                     THEN Msg("success", "Face match verified.", <<>>)
                     ELSE Msg("error", "Face mismatch.", <<>>)>>,
                   calls, None)

\* in = [id_face, live_face, deepface]: the uploads and what DeepFace.verify
\* answers (deepface.raises; deepface.res: the dict, keys distance, verified)
KycHandler(in, ss) ==
    IF in.id_face = None \/ in.live_face = None
    THEN Result(ss, "rejected",
                <<Msg("error", "Please upload both ID and live photos.", <<>>)>>, <<>>, None)
    ELSE LET l1 == load_image(in.id_face) IN
         IF l1.raised THEN KycError(ss, l1.calls)
         ELSE LET l2 == load_image(in.live_face) IN
              IF l2.raised THEN KycError(ss, l1.calls \o l2.calls)
              ELSE IF in.deepface.raises
                   THEN KycError(ss, l1.calls \o l2.calls \o <<"DeepFace.verify">>)
              ELSE KycStore(in.deepface.res, ss, l1.calls \o l2.calls \o <<"DeepFace.verify">>)

----------------------------------------------------------------------------
(* Transactions, lines 245-262 *)

RECURSIVE SumSeq(_)
SumSeq(s) == IF Len(s) = 0 THEN 0 ELSE s[1] + SumSeq(Tail(s))

RECURSIVE SumSquares(_)
SumSquares(s) == IF Len(s) = 0 THEN 0 ELSE s[1] * s[1] + SumSquares(Tail(s))

\* Series.std(): pandas' default ddof
Ddof == 1

\* the 3 of mean() + 3 * std()
Sigmas == 3

\* AboveThreshold with the population standard deviation (ddof = 0)
AboveThreshold_Population(x, amount) ==
    LET n == Len(amount)
        S == SumSeq(amount)
        Q == SumSquares(amount)
    IN /\ n > 0
       /\ n * x - S > 0
       /\ (n * x - S) * (n * x - S) * n > Sigmas * Sigmas * n * (n * Q - S * S)

\* AboveThreshold with mean() + 2 * std()
AboveThreshold_TwoSigma(x, amount) ==
    LET n == Len(amount)
        S == SumSeq(amount)
        Q == SumSquares(amount)
    IN /\ n > Ddof
       /\ n * x - S > 0
       /\ (n * x - S) * (n * x - S) * (n - Ddof) > 2 * 2 * n * (n * Q - S * S)

\* d with its factors 2 removed, for d > 0
RECURSIVE OddPart(_)
OddPart(d) == IF d % 2 = 0 THEN OddPart(d \div 2) ELSE d

\* the smallest power of two greater than d, from b up
RECURSIVE PowerOfTwoAbove(_, _)
PowerOfTwoAbove(d, b) == IF b > d THEN b ELSE PowerOfTwoAbove(d, 2 * b)

\* the whole number k with 2^k <= d < 2^(k+1), for d > 0
RECURSIVE FloorLog2(_)
FloorLog2(d) == IF d < 2 THEN 0 ELSE 1 + FloorLog2(d \div 2)

\* pandas computes in binary64.  For a row whose deviation from the mean is
\* d = 3 * std exactly, std() is sqrt(d * d / 9), rounded to 53 bits after the
\* division and after the root, and 3 * std() is rounded again.  The result
\* is d or the double just below d.  With o the odd part of d and
\* 2^k <= o < 2^(k+1), it is the double below exactly when
\*   o is in the upper half of its binade, where a step of o / 3 is half a
\*     step of o:  2 o >= 3 * 2^k;
\*   o / 3 lies 2/3 of a step above a double:  o * 2^(53-k) = 2 (mod 3);
\*   o * o / 9 lies 4/9 of a step above a double, the most a quotient by 9
\*     can be rounded down, which takes the root below the middle between
\*     two doubles:  o * o * 2^(54-2k) = 4 (mod 9).
\* 2^(53-k) is 1 or 2 (mod 3) as k is odd or even, and 2^(54-2k) is 1, 7 or 4
\* (mod 9) as k is 0, 1 or 2 (mod 3).  The squares are exact for d < 2^26.
RoundsBelow(d) ==
    LET o == OddPart(d)
        k == FloorLog2(o)
        third == IF k % 2 = 1 THEN 1 ELSE 2
        ninth == CASE k % 3 = 0 -> 1 [] k % 3 = 1 -> 7 [] OTHER -> 4
    IN /\ 2 * o >= 3 * 2^k
       /\ (o * third) % 3 = 2
       /\ ((o % 9) * (o % 9) * ninth) % 9 = 4

\* the binary64 threshold is below the row x = mean + d, d = 3 * std: the
\* product 3 * std() is the double just below d, and the sum mean() + 3 * std()
\* is not rounded back to x.  It is rounded back when x lies in a higher
\* binade than d, where the doubles are further apart.
ThresholdBelow(x, d) ==
    /\ RoundsBelow(d)
    /\ 0 - PowerOfTwoAbove(d, 1) < x
    /\ x <= PowerOfTwoAbove(d, 1)

\* x > mean() + Sigmas * std() over a column of whole numbers.  With
\*   n = len, S = sum, Q = sum of squares:
\*   mean = S / n,  std^2 = (n Q - S^2) / (n (n - Ddof)),
\* x is above the exact threshold when  n x - S > 0  and
\*   (n x - S)^2 (n - Ddof) > Sigmas^2 n (n Q - S^2),
\* and the threshold in binary64 is on the same side of x, but for an x equal
\* to the exact threshold: there the mean is a whole number (n divides S), the
\* deviation is (n x - S) / n, and the rounding decides.
\* mean() of no row and std() of Ddof rows or fewer are NaN, and nothing
\* compares greater than NaN.
AboveThreshold(x, amount) ==
    LET n == Len(amount)
        S == SumSeq(amount)
        Q == SumSquares(amount)
        above == (n * x - S) * (n * x - S) * (n - Ddof)
        limit == Sigmas * Sigmas * n * (n * Q - S * S)
    IN /\ n > Ddof
       /\ n * x - S > 0
       /\ \/ above > limit
          \/ above = limit /\ ThresholdBelow(x, (n * x - S) \div n)

\* the numbers of the column, in row order: read_csv reads an empty cell as
\* NaN, and mean() and std() skip NaN
RECURSIVE Numbers(_, _)
Numbers(amount, empty_rows) ==
    IF Len(amount) = 0 THEN <<>>
    ELSE Numbers(SubSeq(amount, 1, Len(amount) - 1), empty_rows)
         \o (IF Len(amount) \in empty_rows THEN <<>> ELSE <<amount[Len(amount)]>>)

\* frauds = df[df["amount"] > threshold]: the rows kept; NaN compares greater
\* than nothing
Frauds(amount, empty_rows) ==
    {i \in (1..Len(amount)) \ empty_rows :
        AboveThreshold(amount[i], Numbers(amount, empty_rows))}

\* line 262, after what the handler has shown before the exception
CsvError(ss, shown, calls) ==
    Result(ss, "caught", shown \o <<Msg("error", "CSV read error: {}", <<>>)>>,
           calls, None)

\* lines 255-260, for a numeric column
TransactionsStore(csv, ss) ==
    LET n == Cardinality(Frauds(csv.amount, csv.empty_rows)) IN
    Result([ss EXCEPT !["transaction_frauds_count"] = Some(n)],
           "ok",
           <<Msg("write", "df.head()", <<>>),
             Msg("metric", "Potential Fraud Transactions", IntStr(n))>>
           \o (IF n > 0 THEN <<Msg("dataframe", "frauds", <<>>)>> ELSE <<>>),
           <<"read_csv", "mean", "std">>,
           None)

\* in = [txn]: the upload; a CSV is [parses, columns, amount, text_rows,
\* empty_rows]: whether read_csv accepts it, its column names, the numbers of
\* its amount column, the rows of that column that hold text instead of a
\* number (mean() of a column with text raises TypeError) and the rows whose
\* cell is empty (the entry of amount for such a row is not read)
TransactionsHandler(in, ss) ==
    IF in.txn = None
    THEN Result(ss, "rejected", <<Msg("error", "Upload CSV.", <<>>)>>, <<>>, None)
    ELSE LET csv == in.txn[1] IN
         IF ~csv.parses THEN CsvError(ss, <<>>, <<"read_csv">>)
         ELSE IF "amount" \notin csv.columns
              THEN Result(ss, "rejected",
                          <<Msg("write", "df.head()", <<>>),
                            Msg("warning", "CSV must have 'amount' column.", <<>>)>>,
                          <<"read_csv">>, None)
         ELSE IF csv.text_rows # {}
              THEN CsvError(ss, <<Msg("write", "df.head()", <<>>)>>, <<"read_csv", "mean">>)
         ELSE TransactionsStore(csv, ss)

----------------------------------------------------------------------------
(* generate_report_pdf, lines 58-101, and the report button, lines 271-291 *)

ReportTextLimit == 200

RemarksWidth == 90

\* one c.drawString: the font set before it and the text drawn
Line(font, text) == [font |-> font, text |-> text]

\* Body with "if not val" written for "if val is None": an empty text is
\* taken for a section that was not analyzed
Body_Falsy(val, isText) ==
    IF val = None \/ (isText /\ Len(val[1]) = 0) THEN Text("Not analyzed", <<>>)
    ELSE IF isText
         THEN Text("{}...",
                   [i \in 1..Min(ReportTextLimit, Len(val[1])) |->
                       IF val[1][i] = "\n" THEN " " ELSE val[1][i]])
         ELSE Text("{}", val[1])

\* lines 83-88: the body of a section
Body(val, isText) ==
    IF val = None THEN Text("Not analyzed", <<>>)
    ELSE IF isText
         THEN Text("{}...",
                   [i \in 1..Min(ReportTextLimit, Len(val[1])) |->
                       IF val[1][i] = "\n" THEN " " ELSE val[1][i]])
         ELSE Text("{}", val[1])

\* str(val) of a number held in the session
ScoreStr(val) == IF val = None THEN None ELSE Some(FloatStr(val[1]))

CountStr(val) == IF val = None THEN None ELSE Some(IntStr(val[1]))

\* lines 71-78: the titles and the values, in order
ReportSections(data) ==
    <<<<"Document Forgery", Body(ScoreStr(data["forgery_score"]), FALSE)>>,
      <<"Signature Verification", Body(ScoreStr(data["signature_score"]), FALSE)>>,
      <<"Aadhaar OCR", Body(data["aadhaar_text"], TRUE)>>,
      <<"PAN OCR", Body(data["pan_text"], TRUE)>>,
      <<"KYC Face Match", Body(ScoreStr(data["face_distance"]), FALSE)>>,
      <<"Transaction Summary", Body(CountStr(data["transaction_frauds_count"]), FALSE)>>>>

\* lines 79-89, for every section: the title, then the body
RECURSIVE SectionLines(_)
SectionLines(secs) ==
    IF Len(secs) = 0 THEN <<>>
    ELSE <<Line("Helvetica-Bold 12", Text(secs[1][1], <<>>)),
           Line("Helvetica 10", secs[1][2])>> \o SectionLines(Tail(secs))

\* line 96: remarks[i:i+90] for i in range(0, len(remarks), 90)
RECURSIVE Chunks(_)
Chunks(remarks) ==
    IF Len(remarks) = 0 THEN <<>>
    ELSE <<Line("Helvetica 10",
                Text("{}", SubSeq(remarks, 1, Min(RemarksWidth, Len(remarks)))))>>
         \o Chunks(SubSeq(remarks, RemarksWidth + 1, Len(remarks)))

\* the strings generate_report_pdf draws, top to bottom
generate_report_pdf(data, fields) ==
    <<Line("Helvetica-Bold 16", Text("Banking Fraud Guard - Fraud Detection Report", <<>>)),
      Line("Helvetica 10", Text("Generated: {}", data.now))>>
    \o (IF Len(data.customer_name) > 0
        THEN <<Line("Helvetica 10", Text("Customer: {}", data.customer_name))>> ELSE <<>>)
    \o (IF Len(data.reference) > 0
        THEN <<Line("Helvetica 10", Text("Ref: {}", data.reference))>> ELSE <<>>)
    \o SectionLines(ReportSections(fields))
    \o <<Line("Helvetica-Bold 12", Text("Remarks", <<>>))>>
    \o Chunks(data.remarks)

\* ReportHandler with the session cleared once the report is written
ReportHandler_ClearsSession(in, ss) ==
    IF in.mkdtemp_raises THEN Uncaught(ss, <<>>)
    ELSE IF in.pdf_raises
    THEN Result(ss, "caught", <<Msg("error", "PDF generation error: {}", <<>>)>>,
                <<"generate_report_pdf">>, None)
    ELSE Result([key \in Keys |-> None], "ok",
                <<Msg("download_button", "Download Fraud Report (PDF)", <<>>)>>,
                <<"generate_report_pdf">>,
                Some(generate_report_pdf(in, ss)))

\* in = [customer_name, reference, remarks, now, mkdtemp_raises, pdf_raises]:
\* the three text inputs, the clock, whether tempfile.mkdtemp() of line 272
\* raises (it is called before the try of line 286), and whether
\* generate_report_pdf or open() raises inside the try
ReportHandler(in, ss) ==
    IF in.mkdtemp_raises THEN Uncaught(ss, <<>>)
    ELSE IF in.pdf_raises
    THEN Result(ss, "caught", <<Msg("error", "PDF generation error: {}", <<>>)>>,
                <<"generate_report_pdf">>, None)
    ELSE Result(ss, "ok",
                <<Msg("download_button", "Download Fraud Report (PDF)", <<>>)>>,
                <<"generate_report_pdf">>,
                Some(generate_report_pdf(in, ss)))

----------------------------------------------------------------------------
(* The script run *)

AllSections == {Sections[i] : i \in 1..Len(Sections)}

\* the sections whose code runs to its end: an exception that leaves the
\* script stops the run in the section that raised it
Rendered(op, outcome) ==
    IF outcome = "uncaught" THEN {Sections[i] : i \in 1..(SectionIndex(op) - 1)}
    ELSE AllSections

\* the handler of the button that was clicked
Handler(op, in, ss) ==
    CASE op = "forgery" -> ForgeryHandler(in, ss)
      [] op = "signature" -> SignatureHandler(in, ss)
      [] op = "aadhaar" -> AadhaarHandler(in, ss)
      [] op = "pan" -> PanHandler(in, ss)
      [] op = "kyc" -> KycHandler(in, ss)
      [] op = "transactions" -> TransactionsHandler(in, ss)
      [] op = "report" -> ReportHandler(in, ss)

\* the tabs that have run to their end, after a run of op that ended in outcome
Completed(done, op, outcome) ==
    IF outcome = "ok" /\ op # "report" THEN done \cup {op} ELSE done

\* what a script run leaves behind: the button, its input, what was shown
RunOf(op, in, r) ==
    [op |-> op, input |-> in, outcome |-> r.outcome, msgs |-> r.msgs,
     calls |-> r.calls, report |-> r.report, rendered |-> Rendered(op, r.outcome)]

\* a script run with no button pressed
Idle(op, in) ==
    [op |-> op, input |-> in, outcome |-> "ok", msgs |-> <<>>, calls |-> <<>>,
     report |-> None, rendered |-> AllSections]

----------------------------------------------------------------------------
(* The inputs of a run *)

PngName == <<"a", ".", "p", "n", "g">>

PdfName == <<"B", ".", "P", "D", "F">>

GoodPng == File(PngName, <<1>>)

GoodPdf == File(PdfName, <<2, 3>>)

BadPng == File(PngName, <<>>)

BadPdf == File(PdfName, <<>>)

Ssim(score) == [raises |-> FALSE, score |-> score]

SsimRaises == [raises |-> TRUE, score |-> 0]

ForgeryInputs ==
    {[orig |-> None, sus |-> Some(GoodPng), ssim |-> Ssim(950)],
     [orig |-> Some(GoodPng), sus |-> None, ssim |-> Ssim(950)],
     [orig |-> Some(BadPdf), sus |-> Some(GoodPng), ssim |-> Ssim(950)],
     [orig |-> Some(GoodPng), sus |-> Some(GoodPdf), ssim |-> SsimRaises],
     [orig |-> Some(GoodPng), sus |-> Some(GoodPdf), ssim |-> Ssim(950)],
     [orig |-> Some(GoodPng), sus |-> Some(GoodPdf), ssim |-> Ssim(600)]}

SignatureInputs ==
    {[sig_orig |-> None, sig_sus |-> None, ssim |-> Ssim(900)],
     [sig_orig |-> Some(GoodPng), sig_sus |-> Some(BadPng), ssim |-> Ssim(900)],
     [sig_orig |-> Some(GoodPng), sig_sus |-> Some(GoodPng), ssim |-> SsimRaises],
     [sig_orig |-> Some(GoodPng), sig_sus |-> Some(GoodPng), ssim |-> Ssim(900)],
     [sig_orig |-> Some(GoodPng), sig_sus |-> Some(GoodPng), ssim |-> Ssim(0 - 50)]}

\* one easyocr result: (box, text, confidence)
Frag(text) == <<0, text, 1>>

Ocr(res) == [raises |-> "no", res |-> res]

AadhaarNumber ==
    <<Frag(<<"1", "2", "3", "4">>), Frag(<<"5", "6", "7", "8">>), Frag(<<"9", "0", "1", "2">>)>>

AadhaarInputs ==
    {[aad |-> None, ocr |-> Ocr(<<>>)],
     [aad |-> Some(BadPdf), ocr |-> Ocr(<<>>)],
     [aad |-> Some(GoodPng), ocr |-> [raises |-> "Reader", res |-> <<>>]],
     [aad |-> Some(GoodPng), ocr |-> [raises |-> "readtext", res |-> <<>>]],
     [aad |-> Some(GoodPdf), ocr |-> Ocr(<<>>)],
     [aad |-> Some(GoodPdf), ocr |-> Ocr(AadhaarNumber)]}

PanNumber ==
    <<Frag(<<"p", "a", "n">>), Frag(<<"a", "b", "c", "d", "e", "1", "2", "3", "4", "f">>)>>

PanSplit == <<Frag(<<"A", "B", "C", "D", "E">>), Frag(<<"1", "2", "3", "4", "F">>)>>

PanInputs ==
    {[pan |-> None, ocr |-> Ocr(<<>>)],
     [pan |-> Some(BadPng), ocr |-> Ocr(<<>>)],
     [pan |-> Some(GoodPng), ocr |-> [raises |-> "readtext", res |-> <<>>]],
     [pan |-> Some(GoodPng), ocr |-> Ocr(PanNumber)],
     [pan |-> Some(GoodPng), ocr |-> Ocr(PanSplit)]}

Verify(distance, verified) ==
    [raises |-> FALSE, res |-> [distance |-> distance, verified |-> verified]]

VerifyRaises == [raises |-> TRUE, res |-> [distance |-> None, verified |-> None]]

KycInputs ==
    {[id_face |-> None, live_face |-> Some(GoodPng), deepface |-> VerifyRaises],
     [id_face |-> Some(GoodPng), live_face |-> None, deepface |-> VerifyRaises],
     [id_face |-> Some(GoodPng), live_face |-> Some(BadPng), deepface |-> VerifyRaises],
     [id_face |-> Some(GoodPng), live_face |-> Some(GoodPng), deepface |-> VerifyRaises],
     [id_face |-> Some(GoodPng), live_face |-> Some(GoodPng),
      deepface |-> Verify(Some(PyNone), Some(PyBool(TRUE)))],
     [id_face |-> Some(GoodPng), live_face |-> Some(GoodPng),
      deepface |-> Verify(Some(PyStr), Some(PyBool(TRUE)))],
     [id_face |-> Some(GoodPng), live_face |-> Some(GoodPng),
      deepface |-> Verify(Some(PyFloat(350)), Some(PyBool(TRUE)))],
     [id_face |-> Some(GoodPng), live_face |-> Some(GoodPng),
      deepface |-> Verify(None, None)]}

CsvWithEmpty(amount, empty_rows) ==
    [parses |-> TRUE, columns |-> {"id", "amount"}, amount |-> amount,
     text_rows |-> {}, empty_rows |-> empty_rows]

Csv(amount) == CsvWithEmpty(amount, {})

\* ten rows of 0 and one of 1: the smallest column with a row above the threshold
OneOutlier == [i \in 1..11 |-> IF i = 4 THEN 1 ELSE 0]

\* twenty rows of 0 and two of 1: both are above the threshold
TwoOutliers == [i \in 1..22 |-> IF i <= 2 THEN 1 ELSE 0]

\* mean 0 and std 1: the row that holds 3 is equal to the threshold
AtThreshold == [i \in 1..19 |-> IF i = 1 THEN 0 - 3 ELSE IF i = 2 THEN 3 ELSE 0]

\* mean 0 and std 31/3: in binary64 std() is 10.333333333333332 and the
\* threshold 30.999999999999996, below the row that holds 31
BelowThreshold == [i \in 1..19 |-> IF i = 1 THEN 0 - 31 ELSE IF i = 2 THEN 31 ELSE 0]

\* the same column with 2 added to every row: mean 2, and the sum
\* 2 + 30.999999999999996 is rounded to 33, the row itself
RoundedBack == [i \in 1..19 |-> IF i = 1 THEN 0 - 29 ELSE IF i = 2 THEN 33 ELSE 2]

BadCsvs ==
    {[parses |-> FALSE, columns |-> {}, amount |-> <<>>, text_rows |-> {},
      empty_rows |-> {}],
     [parses |-> TRUE, columns |-> {"id", "value"}, amount |-> <<>>, text_rows |-> {},
      empty_rows |-> {}],
     [parses |-> TRUE, columns |-> {"amount"}, amount |-> <<10, 0, 20>>, text_rows |-> {2},
      empty_rows |-> {}]}

TransactionsInputs ==
    {[txn |-> None]}
    \cup {[txn |-> Some(csv)] : csv \in BadCsvs}
    \cup {[txn |-> Some(Csv(a))] : a \in {<<7>>, OneOutlier}}

Now == <<"2", "0", "2", "5">>

LongRemarks == [i \in 1..(RemarksWidth + 1) |-> "r"]

ReportInput(name, ref, remarks, raises) ==
    [customer_name |-> name, reference |-> ref, remarks |-> remarks, now |-> Now,
     mkdtemp_raises |-> raises = "mkdtemp", pdf_raises |-> raises = "pdf"]

ReportInputs ==
    {ReportInput(<<>>, <<>>, <<>>, "no"),
     ReportInput(<<"A", "s", "h", "a">>, <<"7">>, LongRemarks, "no"),
     ReportInput(<<"A", "s", "h", "a">>, <<>>, <<"o", "k">>, "pdf"),
     ReportInput(<<"A", "s", "h", "a">>, <<>>, <<"o", "k">>, "mkdtemp")}

----------------------------------------------------------------------------
(* A session: any sequence of button clicks *)

\* the first run of a session
Init ==
    /\ session_state = InitSession
    /\ run = Idle("load", <<>>)
    /\ completed = {}

AnalyzeForgery ==
    \E in \in ForgeryInputs :
        \E r \in {Handler("forgery", in, session_state)} :
            /\ session_state' = r.ss
            /\ run' = RunOf("forgery", in, r)
            /\ completed' = Completed(completed, "forgery", r.outcome)

VerifySignature ==
    \E in \in SignatureInputs :
        \E r \in {Handler("signature", in, session_state)} :
            /\ session_state' = r.ss
            /\ run' = RunOf("signature", in, r)
            /\ completed' = Completed(completed, "signature", r.outcome)

ExtractAadhaar ==
    \E in \in AadhaarInputs :
        \E r \in {Handler("aadhaar", in, session_state)} :
            /\ session_state' = r.ss
            /\ run' = RunOf("aadhaar", in, r)
            /\ completed' = Completed(completed, "aadhaar", r.outcome)

ExtractPan ==
    \E in \in PanInputs :
        \E r \in {Handler("pan", in, session_state)} :
            /\ session_state' = r.ss
            /\ run' = RunOf("pan", in, r)
            /\ completed' = Completed(completed, "pan", r.outcome)

CompareFaces ==
    \E in \in KycInputs :
        \E r \in {Handler("kyc", in, session_state)} :
            /\ session_state' = r.ss
            /\ run' = RunOf("kyc", in, r)
            /\ completed' = Completed(completed, "kyc", r.outcome)

AnalyzeTransactions ==
    \E in \in TransactionsInputs :
        \E r \in {Handler("transactions", in, session_state)} :
            /\ session_state' = r.ss
            /\ run' = RunOf("transactions", in, r)
            /\ completed' = Completed(completed, "transactions", r.outcome)

GenerateReport ==
    \E in \in ReportInputs :
        \E r \in {Handler("report", in, session_state)} :
            /\ session_state' = r.ss
            /\ run' = RunOf("report", in, r)
            /\ completed' = Completed(completed, "report", r.outcome)

\* a run caused by any other widget: lines 106-116 find every key present
Rerun ==
    /\ run' = Idle("load", <<>>)
    /\ UNCHANGED <<session_state, completed>>

Next ==
    \/ AnalyzeForgery
    \/ VerifySignature
    \/ ExtractAadhaar
    \/ ExtractPan
    \/ CompareFaces
    \/ AnalyzeTransactions
    \/ GenerateReport
    \/ Rerun

Spec == Init /\ [][Next]_vars

----------------------------------------------------------------------------
(* The Transactions tab alone, over every small amount column *)

MaxRows == 10

Amounts == {0, 1, 5}

Columns == UNION {[1..n -> Amounts] : n \in 0..MaxRows}

\* OneOutlier with the cell of one row empty: ten numbers are left, and the
\* row that holds 1 is not above their threshold; with the cell of the row
\* that holds 1 empty: ten numbers 0
EmptyCells == {CsvWithEmpty(OneOutlier, {7}), CsvWithEmpty(OneOutlier, {4})}

\* TwoOutliers with the cells of eleven rows empty: eleven numbers, two of
\* them 1, none above their threshold
ManyEmptyCells == CsvWithEmpty(TwoOutliers, 12..22)

UploadedCsvs ==
    {Csv(a) : a \in Columns \cup {OneOutlier, TwoOutliers, AtThreshold,
                                 BelowThreshold, RoundedBack}}
    \cup EmptyCells \cup {ManyEmptyCells}

\* the run after a CSV was put into the uploader: the widget holds the file
InitUploaded ==
    /\ session_state = InitSession
    /\ \E csv \in UploadedCsvs : run = Idle("upload", [txn |-> Some(csv)])
    /\ completed = {}

\* the Analyze Transactions button, pressed with that file in the uploader
AnalyzeUploaded ==
    /\ run.op = "upload"
    /\ \E r \in {Handler("transactions", run.input, session_state)} :
            /\ session_state' = r.ss
            /\ run' = RunOf("transactions", run.input, r)
            /\ completed' = Completed(completed, "transactions", r.outcome)

SpecTransactions == InitUploaded /\ [][AnalyzeUploaded]_vars

----------------------------------------------------------------------------
(* The report button, pressed after every tab was clicked once *)

\* a text longer than the report keeps, with a line break in it
LongText == [i \in 1..(ReportTextLimit + 1) |-> IF i = 3 THEN "\n" ELSE "x"]

\* the clicks before the report: for every tab, one input
BeforeReport ==
    {<<<<"forgery", f>>, <<"signature", s>>, <<"aadhaar", a>>, <<"pan", p>>,
       <<"kyc", k>>, <<"transactions", t>>>> :
        f \in {[orig |-> None, sus |-> Some(GoodPng), ssim |-> Ssim(950)],
               [orig |-> Some(GoodPng), sus |-> Some(GoodPdf), ssim |-> Ssim(950)]},
        s \in {[sig_orig |-> Some(GoodPng), sig_sus |-> Some(BadPng), ssim |-> Ssim(900)],
               [sig_orig |-> Some(GoodPng), sig_sus |-> Some(GoodPng), ssim |-> Ssim(0 - 50)]},
        a \in {[aad |-> None, ocr |-> Ocr(<<>>)],
               [aad |-> Some(GoodPdf), ocr |-> Ocr(<<>>)],
               [aad |-> Some(GoodPdf), ocr |-> Ocr(AadhaarNumber)],
               [aad |-> Some(GoodPdf), ocr |-> Ocr(<<Frag(LongText)>>)]},
        p \in {[pan |-> Some(GoodPng), ocr |-> [raises |-> "readtext", res |-> <<>>]],
               [pan |-> Some(GoodPng), ocr |-> Ocr(PanNumber)]},
        k \in {[id_face |-> Some(GoodPng), live_face |-> Some(GoodPng), deepface |-> VerifyRaises],
               [id_face |-> Some(GoodPng), live_face |-> Some(GoodPng),
                deepface |-> Verify(Some(PyFloat(350)), Some(PyBool(TRUE)))],
               [id_face |-> Some(GoodPng), live_face |-> Some(GoodPng),
                deepface |-> Verify(None, None)]},
        t \in {[txn |-> None], [txn |-> Some(Csv(<<7>>))], [txn |-> Some(Csv(OneOutlier))]}}

\* the session and the history after a sequence of clicks <<op, in>>
RECURSIVE AfterClicks(_, _, _)
AfterClicks(clicks, ss, done) ==
    IF Len(clicks) = 0 THEN [ss |-> ss, done |-> done]
    ELSE LET r == Handler(clicks[1][1], clicks[1][2], ss) IN
         AfterClicks(Tail(clicks), r.ss, Completed(done, clicks[1][1], r.outcome))

InitBeforeReport ==
    \E clicks \in BeforeReport :
        \E st \in {AfterClicks(clicks, InitSession, {})} :
            /\ session_state = st.ss
            /\ completed = st.done
            /\ run = Idle("load", <<>>)

SpecReport == InitBeforeReport /\ [][GenerateReport]_vars

----------------------------------------------------------------------------
(* Properties *)

Tabs == AllSections \ {"report"}

InputsOf(op) ==
    CASE op = "forgery" -> ForgeryInputs
      [] op = "signature" -> SignatureInputs
      [] op = "aadhaar" -> AadhaarInputs
      [] op = "pan" -> PanInputs
      [] op = "kyc" -> KycInputs
      [] op = "transactions" -> TransactionsInputs

Failures == {"rejected", "caught", "uncaught"}

\* C1: an exception raised by a library call in a handler is caught in that
\* handler and shown as an inline message: no run ends with an exception
\* leaving the script, and every run executes all the sections, the later
\* tabs and the report section included.
C1_ExceptionsStayInHandler ==
    /\ run.outcome # "uncaught"
    /\ run.rendered = AllSections

\* C2: in every reachable state a session field is None unless the analysis
\* of the tab that owns it has run to its end at least once in the session;
\* with no tab completed (the initial state among them) all seven are None.
C2_NoneUntilTabCompleted ==
    \A op \in Tabs : \A key \in Owned(op) :
        session_state[key] # None => op \in completed

\* a tab has stored its result, and a later run of another tab failed and
\* left that tab's field None
C2_Witness ==
    /\ session_state["forgery_score"] # None
    /\ session_state["signature_score"] = None
    /\ run.op = "signature"
    /\ run.outcome = "uncaught"

\* C3: a run changes only the session fields its own section owns: a tab at
\* most its own field (KYC its two), the report button and a run without a
\* button none at all.
C3_OnlyOwnFieldsChange ==
    [][\A key \in Keys :
          session_state'[key] # session_state[key] => key \in Owned(run'.op)]_vars

\* the signature tab has stored a score in a session that holds the results
\* of two other tabs
C3_Witness ==
    /\ run.op = "signature"
    /\ run.outcome = "ok"
    /\ session_state["signature_score"] = Some(0 - 50)
    /\ session_state["forgery_score"] = Some(950)
    /\ session_state["face_distance"] # None

\* the click comes with a required upload missing
MissingUpload(op, in) ==
    CASE op = "forgery" -> in.orig = None \/ in.sus = None
      [] op = "signature" -> in.sig_orig = None \/ in.sig_sus = None
      [] op = "aadhaar" -> in.aad = None
      [] op = "pan" -> in.pan = None
      [] op = "kyc" -> in.id_face = None \/ in.live_face = None
      [] op = "transactions" -> in.txn = None
      [] OTHER -> FALSE

\* the uploaded CSV was read and has no 'amount' column
NoAmountColumn(op, in) ==
    /\ op = "transactions"
    /\ in.txn # None
    /\ in.txn[1].parses
    /\ "amount" \notin in.txn[1].columns

\* the calls that load or analyse an upload; reading the CSV, which is what
\* finds the column missing, is not among them
AnalysisCalls ==
    {"Image.open", "convert_from_bytes", "ssim", "easyocr.Reader", "readtext",
     "DeepFace.verify", "mean", "std"}

InlineMessage(msgs) ==
    /\ Len(msgs) > 0
    /\ msgs[Len(msgs)].kind \in {"error", "warning"}

\* C4: a click with a required upload missing, or with a CSV that has no
\* 'amount' column, shows an inline message, makes no analysis call and
\* leaves the seven session fields as they were.
C4_RejectedClickChangesNothing ==
    [][(MissingUpload(run'.op, run'.input) \/ NoAmountColumn(run'.op, run'.input))
        => /\ session_state' = session_state
           /\ InlineMessage(run'.msgs)
           /\ \A i \in 1..Len(run'.calls) : run'.calls[i] \notin AnalysisCalls]_vars

\* a forgery click with one upload missing, in a session that holds a score
C4_Witness ==
    /\ run.op = "forgery"
    /\ run.input.orig # None
    /\ run.input.sus = None
    /\ session_state["forgery_score"] = Some(600)

\* the numbers of the amount column of an uploaded CSV: its rows but the
\* empty cells
Sample(csv) ==
    LET rows == (1..Len(csv.amount)) \ csv.empty_rows
        RECURSIVE Upto(_)
        Upto(i) == IF i = 0 THEN <<>>
                   ELSE Upto(i - 1) \o (IF i \in rows THEN <<csv.amount[i]>> ELSE <<>>)
    IN Upto(Len(csv.amount))

\* how a row that holds x compares with mean + 3 * std of the sample a in
\* exact arithmetic, from the definitions: with n = len(a) and
\* dev(y) = n * y - sum(a), the deviation of x from the mean is dev(x) / n
\* and the sample variance is the sum of dev(a[j])^2 over n^2 * (n - 1).
\* With fewer than two numbers std, and the threshold with it, is no number.
Compared(csv) ==
    LET a == Sample(csv)
        n == Len(a)
        S == SumSeq(a)
        sq == SumSeq([j \in 1..n |-> (n * a[j] - S) * (n * a[j] - S)])
    IN [i \in (1..Len(csv.amount)) \ csv.empty_rows |->
          LET dev == n * csv.amount[i] - S IN
          IF n < 2 THEN "no threshold"
          ELSE IF dev < 0 THEN "below"
          ELSE IF dev * dev * (n - 1) > 9 * sq THEN "above"
          ELSE IF dev * dev * (n - 1) < 9 * sq THEN "below"
          ELSE IF (dev \div n) % 3 = 0 THEN "at" ELSE "at, std rounded"]

\* the rows strictly above mean + 3 * std in exact arithmetic
RowsAboveThreshold(csv) ==
    LET c == Compared(csv) IN {i \in DOMAIN c : c[i] = "above"}

\* the rows equal to mean + 3 * std in exact arithmetic for which std, a
\* third of the deviation, is no whole number and so no binary fraction:
\* std() is a rounded number
RowsAtRoundedThreshold(csv) ==
    LET c == Compared(csv) IN {i \in DOMAIN c : c[i] = "at, std rounded"}
    /\ run.op = "transactions"
    /\ run.outcome = "ok"
    /\ run.input.txn[1].amount = [i \in 1..10 |-> IF i = 1 THEN 5 ELSE 0]
    /\ session_state["transaction_frauds_count"] = Some(0)

Titles ==
    <<"Document Forgery", "Signature Verification", "Aadhaar OCR", "PAN OCR",
      "KYC Face Match", "Transaction Summary">>

\* the session field each report section shows, and the tab that owns it
Shows ==
    <<"forgery_score", "signature_score", "aadhaar_text", "pan_text",
      "face_distance", "transaction_frauds_count">>

Heading(title) == Line("Helvetica-Bold 12", Text(title, <<>>))

NotAnalyzed == Text("Not analyzed", <<>>)

\* the six titles in their order, each followed by one body line, then
\* Remarks; no other heading before, between or after
ReportLayout(lines) ==
    \E k \in 1..Len(lines) :
        /\ k + 12 <= Len(lines)
        /\ \A j \in 1..6 : /\ lines[k + 2 * (j - 1)] = Heading(Titles[j])
                           /\ lines[k + 2 * j - 1].font = "Helvetica 10"
        /\ lines[k + 12] = Heading("Remarks")
        /\ \A i \in 1..Len(lines) :
              (i < k \/ i > k + 12) => lines[i].font # "Helvetica-Bold 12"

\* the body line of section j
SectionBody(lines, j) ==
    lines[(CHOOSE k \in 1..Len(lines) : lines[k] = Heading(Titles[j])) + 1].text

\* what the report keeps of a text: 200 characters, line breaks as spaces
Kept(v) ==
    LET head == IF Len(v) > 200 THEN SubSeq(v, 1, 200) ELSE v IN
    [i \in 1..Len(head) |-> IF head[i] = "\n" THEN " " ELSE head[i]]

\* the body of section j for the value v, as the report draws it
Drawn(j, v) ==
    IF j \in {3, 4} THEN Text("{}...", Kept(v))
    ELSE IF j = 6 THEN Text("{}", IntStr(v))
    ELSE Text("{}", FloatStr(v))

\* the body of section j for the value v, were the value shown as it is held
Verbatim(j, v) ==
    IF j \in {3, 4} THEN v
    ELSE IF j = 6 THEN IntStr(v)
    ELSE FloatStr(v)

\* C6 as stated: the report holds the six titles in their order and then
\* Remarks; a body is "Not analyzed" exactly when the section's field is
\* None, which is exactly when its tab never completed; otherwise the body
\* shows the value held in the field when the button was clicked.
C6_BodyShowsValue ==
    (run.op = "report" /\ run.outcome = "ok")
    => /\ ReportLayout(run.report[1])
       /\ \A j \in 1..6 :
             LET body == SectionBody(run.report[1], j)
                 val == session_state[Shows[j]]
             IN /\ (body = NotAnalyzed) <=> (val = None)
                /\ (val = None) <=> (Sections[j] \notin completed)
                /\ val # None => body.arg = Verbatim(j, val[1])

\* C6, amended: as above, but the body is drawn from the value: a number as
\* its str(), a text as its first 200 characters with line breaks turned
\* into spaces, followed by "...".
C6_BodyDrawnFromValue ==
    (run.op = "report" /\ run.outcome = "ok")
    => /\ ReportLayout(run.report[1])
       /\ \A j \in 1..6 :
             LET body == SectionBody(run.report[1], j)
                 val == session_state[Shows[j]]
             IN /\ (body = NotAnalyzed) <=> (val = None)
                /\ (val = None) <=> (Sections[j] \notin completed)
                /\ val # None => body = Drawn(j, val[1])

\* a report of a session that holds a text of more than 200 characters, no
\* PAN text (its section reads "Not analyzed") and a fraud count
C6_Witness ==
    /\ run.op = "report"
    /\ run.outcome = "ok"
    /\ session_state["aadhaar_text"] # None
    /\ Len(session_state["aadhaar_text"][1]) > 200
    /\ session_state["pan_text"] = None
    /\ session_state["transaction_frauds_count"] = Some(1)

\* the session with every field another tab owns set back to None
OwnOnly(op, ss) == [key \in Keys |-> IF key \in Owned(op) THEN ss[key] ELSE None]

\* C7: what a tab shows and stores does not depend on the fields of the
\* other tabs: on the same input, a run in the present session and a run in
\* the session with the other tabs' fields at None show the same messages,
\* make the same calls and store the same values in the tab's own fields.
C7_TabsIndependent ==
    \A op \in Tabs : \A in \in InputsOf(op) :
        LET a == Handler(op, in, session_state)
            b == Handler(op, in, OwnOnly(op, session_state))
        IN /\ a.outcome = b.outcome
           /\ a.msgs = b.msgs
           /\ a.calls = b.calls
           /\ \A key \in Owned(op) : a.ss[key] = b.ss[key]

\* the KYC tab has stored a result in a session that holds the results of
\* two other tabs, and in one that holds none
C7_Witness ==
    /\ run.op = "kyc"
    /\ run.outcome = "ok"
    /\ session_state["forgery_score"] # None
    /\ session_state["aadhaar_text"] # None
    /\ session_state["signature_score"] = None

\* C8: no run sets a field that holds a value back to None; a run that is
\* rejected or that fails leaves every field as it was; and a report drawn
\* of a session shows no "Not analyzed" for a field that holds a value.
C8_FieldsNeverReset ==
    [][/\ \A key \in Keys : session_state[key] # None => session_state'[key] # None
       /\ run'.outcome \in Failures => session_state' = session_state
       /\ (run'.op = "report" /\ run'.outcome = "ok")
          => \A j \in 1..6 :
                session_state[Shows[j]] # None
                => SectionBody(run'.report[1], j) # NotAnalyzed]_vars

\* a KYC run failed in a session that holds the result of an earlier one
C8_Witness ==
    /\ run.op = "kyc"
    /\ run.outcome = "caught"
    /\ session_state["face_distance"] = Some(350)
    /\ session_state["face_verified"] = Some(TRUE)

\* C10: in every reachable state face_distance is None exactly when
\* face_verified is None, also after a KYC run in which DeepFace.verify or
\* the conversion of its result raised.
C10_FaceFieldsTogether ==
    (session_state["face_distance"] = None) <=> (session_state["face_verified"] = None)

\* DeepFace.verify returned, float() of its distance raised, and the session
\* holds the result of an earlier run
C10_Witness ==
    /\ run.op = "kyc"
    /\ run.outcome = "caught"
    /\ ~run.input.deepface.raises
    /\ session_state["face_distance"] # None
    /\ session_state["face_verified"] # None

====
